---- MODULE Spec2Model ----
(***************************************************************************)
(* Model of the hc-hello-world plugin (src/main.go): the resolvers that    *)
(* filter, paginate and wrap the in-memory sample data.                    *)
(*                                                                         *)
(* A resolver is a Go function (ctx, rawArgs) -> (interface{}, error).     *)
(* startNormalPlugin runs first: it prints the debug banner, initialises   *)
(* the sdk plugin, registers the resolvers statement by statement and      *)
(* serves.  Once the plugin serves, the host invokes what is registered.   *)
(* One action of the model is one complete invocation of one resolver:     *)
(* it draws the argument mapping, runs the translated body and records     *)
(* the arguments and the outcome (a returned value or a run-time panic).   *)
(* Respond hands the outcome to the transport layer, after which the next  *)
(* request is taken.  The wall clock read by time.Now() is the variable    *)
(* now.                                                                    *)
(***************************************************************************)
EXTENDS Integers, Sequences, FiniteSets, TLC

VARIABLES
    now,        \* seconds shown by the wall clock (time.Now().Unix())
    op,         \* resolver whose outcome awaits delivery ("none" when idle)
    args,       \* argument mapping of that invocation
    result,     \* outcome of that invocation
    createdIds, \* data.id of every successful createUser call so far, in call order
    pc,         \* position of startNormalPlugin: start, init, register, serve, serving
    debugMode,  \* value of the environment variable PLUGIN_DEBUG_MODE
    banner,     \* the debug banner has been printed
    plugin,     \* the sdk plugin object: what has been registered with it
    calls,      \* per goroutine: the invocation it runs step by step, with its locals
    heap,       \* the backing arrays of the collections those invocations build
    script      \* a run of runDebug.sh: its position, its shell state, port 40000

\* the state of startNormalPlugin
startup == <<pc, debugMode, banner, plugin>>

\* the invocations that run in parallel, statement group by statement group
parallel == <<calls, heap, script>>

\* the invocation that runs alone, as one step
single == <<op, args, result>>

vars == <<now, op, args, result, createdIds, pc, debugMode, banner, plugin, calls, heap, script>>

(***************************************************************************)
(* Bounds of the model.                                                    *)
(***************************************************************************)
\* Go's int is a two's-complement machine word; the model keeps the
\* wrap-around arithmetic on a word scaled down to IntMin..IntMax.
IntMax == 15
\* last clock value the model explores
MaxClock == 1
\* successful createUser calls recorded in createdIds
MaxCalls == 2

IntMin == -IntMax - 1
Modulus == 2 * (IntMax + 1)
GoInt == IntMin..IntMax

(***************************************************************************)
(* Go integer arithmetic: +, - and * wrap around, / truncates toward zero  *)
(* (the caller guards the zero divisor, which panics in Go).               *)
(***************************************************************************)
Wrap(x) == ((x - IntMin) % Modulus) + IntMin
Add(a, b) == Wrap(a + b)
Sub(a, b) == Wrap(a - b)
Mul(a, b) == Wrap(a * b)
Abs(a) == IF a < 0 THEN -a ELSE a
Div(a, b) ==
    IF (a < 0) = (b < 0)
    THEN Wrap(Abs(a) \div Abs(b))
    ELSE Wrap(-(Abs(a) \div Abs(b)))

(***************************************************************************)
(* Dynamically typed values of an argument mapping                         *)
(* (map[string]interface{}).  A key that is missing from the map is the    *)
(* value AbsentV, a key bound to nil is NullV.                             *)
(***************************************************************************)
AbsentV == [t |-> "absent", v |-> 0]
NullV == [t |-> "null", v |-> 0]
IntV(n) == [t |-> "int", v |-> n]
StrV(s) == [t |-> "string", v |-> s]
BoolV(b) == [t |-> "bool", v |-> b]
ObjV(m) == [t |-> "object", v |-> m]

\* sdk.GetIntArg(args, key, default)
GetIntArg(m, key, default) ==
    IF m[key].t = "int" THEN m[key].v ELSE default

\* sdk.GetStringArg(args, key, default)
GetStringArg(m, key, default) ==
    IF m[key].t = "string" THEN m[key].v ELSE default

\* sdk.GetBoolArg(args, key, default)
GetBoolArg(m, key, default) ==
    IF m[key].t = "bool" THEN m[key].v ELSE default

\* keys of the createUser input object; "role" is a key the resolver never reads
InputKeys == {"name", "email", "username", "role"}
EmptyObject == [k \in InputKeys |-> AbsentV]

\* sdk.GetObjectArg(args, key): the nested mapping, or an empty mapping
GetObjectArg(m, key) ==
    IF m[key].t = "object" THEN m[key].v ELSE EmptyObject

(***************************************************************************)
(* Outcome of an invocation: the returned (value, nil error), or the       *)
(* run-time panic that ends it.                                            *)
(***************************************************************************)
Ok(v) == [status |-> "ok", value |-> v, err |-> "nil"]
Panic(msg) == [status |-> "panic", value |-> msg, err |-> "none"]
NoResult == [status |-> "none", value |-> "", err |-> "none"]

\* Go nil and non-nil interface values held by an envelope field
Nil == [isNil |-> TRUE, v |-> <<>>]
NonNil(x) == [isNil |-> FALSE, v |-> x]

\* time.Time.Format(time.RFC3339) of the clock value t (one-second resolution)
FormatRFC3339(t) == <<"RFC3339", t>>

Hour == 3600

(***************************************************************************)
(* Go slice expression s[low:high]: legal when 0 <= low <= high <= cap(s), *)
(* a run-time panic otherwise.  Every slice sliced here has cap = len.     *)
(***************************************************************************)
SliceInRange(s, low, high) == 0 <= low /\ low <= high /\ high <= Len(s)
Slice(s, low, high) == SubSeq(s, low + 1, high)

(***************************************************************************)
(* getUsersResolver                                                        *)
(***************************************************************************)
\* the sample users built by each call; t1, t2, t3 are the three readings of time.Now()
users(t1, t2, t3) ==
    << [id |-> "1", name |-> "John Doe", email |-> "john.doe@example.com",
        username |-> "johndoe",
        address |-> [street |-> "123 Main St", city |-> "New York", state |-> "NY", zip |-> "10001"],
        tags |-> << [key |-> "department", val |-> "engineering"], [key |-> "level", val |-> "senior"] >>,
        active |-> TRUE, createdAt |-> FormatRFC3339(t1 - 24 * Hour)],
       [id |-> "2", name |-> "Jane Smith", email |-> "jane.smith@example.com",
        username |-> "janesmith",
        address |-> [street |-> "456 Oak Ave", city |-> "Los Angeles", state |-> "CA", zip |-> "90210"],
        tags |-> << [key |-> "department", val |-> "design"], [key |-> "level", val |-> "mid"] >>,
        active |-> FALSE, createdAt |-> FormatRFC3339(t2 - 48 * Hour)],
       [id |-> "3", name |-> "Bob Johnson", email |-> "bob.johnson@example.com",
        username |-> "bobjohnson",
        address |-> [street |-> "789 Pine Rd", city |-> "Chicago", state |-> "IL", zip |-> "60601"],
        tags |-> << [key |-> "department", val |-> "marketing"], [key |-> "level", val |-> "junior"] >>,
        active |-> TRUE, createdAt |-> FormatRFC3339(t3 - 72 * Hour)] >>

\* the filter prepending each match instead of appending it
filteredUsersPrepending(all, activeFilter) ==
    LET kept == SelectSeq(all, LAMBDA user : user.active = activeFilter)
    IN  [i \in 1..Len(kept) |-> kept[Len(kept) + 1 - i]]

\* the filter with the comparison inverted
filteredUsersInverted(all, activeFilter) ==
    SelectSeq(all, LAMBDA user : user.active # activeFilter)

\* "Apply active filter"
filteredUsers(all, activeFilter) ==
    SelectSeq(all, LAMBDA user : user.active = activeFilter)

\* "Apply pagination": the two bounds of the slice expression, n = len(filteredUsers)
usersStart(offset, n) ==
    IF offset > n THEN n ELSE offset

usersEnd(offset, limit, n) ==
    IF Add(offset, limit) > n THEN n ELSE Add(offset, limit)

\* "Apply pagination" and return: filtered[start:end], or the panic of the slice expression
paginatedUsers(filtered, offset, limit) ==
    LET start == usersStart(offset, Len(filtered))
        end == usersEnd(offset, limit, Len(filtered))
    IN  IF SliceInRange(filtered, start, end)
        THEN Ok(Slice(filtered, start, end))
        ELSE Panic("slice bounds out of range")

\* the defaults with a first user skipped
usersDefaultsSkipOne == [limit |-> 10, offset |-> 1, active |-> TRUE]

\* the defaults getUsersResolver hands to the argument accessors
usersDefaults == [limit |-> 10, offset |-> 0, active |-> TRUE]

getUsersResolver(rawArgs, t1, t2, t3) ==
    LET limit == GetIntArg(rawArgs, "limit", usersDefaults.limit)
        offset == GetIntArg(rawArgs, "offset", usersDefaults.offset)
        activeFilter == GetBoolArg(rawArgs, "active", usersDefaults.active)
        filtered == filteredUsers(users(t1, t2, t3), activeFilter)
    IN  paginatedUsers(filtered, offset, limit)

\* argument mappings a caller can pass to getUsers
IntArgValues == {AbsentV, NullV, StrV("x")} \cup {IntV(n) : n \in GoInt}
BoolArgValues == {AbsentV, NullV, StrV("x"), BoolV(TRUE), BoolV(FALSE)}
GetUsersArgs ==
    [limit : IntArgValues, offset : IntArgValues, active : BoolArgValues]

\* successive readings of the clock during one invocation
ClockReadings == {tt \in (now..MaxClock) \X (now..MaxClock) \X (now..MaxClock) :
                    /\ tt[1] <= tt[2] /\ tt[2] <= tt[3] /\ tt[3] <= now + 1}

(***************************************************************************)
(* getProductsPaginatedResolver                                            *)
(***************************************************************************)
\* the sample products built by each call (price written as "%.2f" prints it)
allProducts ==
    << [id |-> "1", name |-> "Laptop", description |-> "High-performance laptop",
        price |-> "999.99", stock |-> 10,
        tags |-> <<"electronics", "computers">>, categories |-> <<"electronics", "office">>],
       [id |-> "2", name |-> "Coffee Mug", description |-> "Ceramic coffee mug",
        price |-> "12.99", stock |-> 50,
        tags |-> <<"kitchen", "drinkware">>, categories |-> <<"home", "kitchen">>],
       [id |-> "3", name |-> "Book", description |-> "Programming book",
        price |-> "29.99", stock |-> 25,
        tags |-> <<"education", "programming">>, categories |-> <<"books", "education">>] >>

\* the filter comparing only the first category of each product
filteredProductsFirstCategory(all, category) ==
    IF category # ""
    THEN SelectSeq(all, LAMBDA product : product.categories[1] = category)
    ELSE all

\* "Filter by category if provided"
filteredProducts(all, category) ==
    IF category # ""
    THEN SelectSeq(all, LAMBDA product :
            \E i \in 1..Len(product.categories) : product.categories[i] = category)
    ELSE all

\* totalPages := (total + pageSize - 1) / pageSize, for pageSize # 0
totalPagesOf(total, pageSize) == Div(Sub(Add(total, pageSize), 1), pageSize)

\* offset := (page - 1) * pageSize
offsetOf(page, pageSize) == Mul(Sub(page, 1), pageSize)

\* end of the page's slice: offset + pageSize, lowered to total
pageEnd(offset, pageSize, total) ==
    IF Add(offset, pageSize) > total THEN total ELSE Add(offset, pageSize)

\* "Get page items": the slice of the page, nil when offset >= total
pageItemsOf(filtered, page, pageSize) ==
    LET total == Len(filtered)
        offset == offsetOf(page, pageSize)
        end == pageEnd(offset, pageSize, total)
    IN  IF offset < total
        THEN IF SliceInRange(filtered, offset, end)
             THEN Ok(Slice(filtered, offset, end))
             ELSE Panic("slice bounds out of range")
        ELSE Ok(<<>>)

\* fmt.Sprintf("%s - %s ($%.2f)", name, description, price)
itemString(product) == <<product.name, " - ", product.description, " ($", product.price, ")">>

\* "Convert products to string array"
itemStrings(pageItems) == [i \in 1..Len(pageItems) |-> itemString(pageItems[i])]

\* the response map with the message counting the filtered collection
paginatedResponseCountingTotal(pageItems, total, pageSize, page, totalPages) ==
    [items |-> itemStrings(pageItems),
     totalCount |-> total,
     pageSize |-> pageSize,
     currentPage |-> page,
     totalPages |-> totalPages,
     hasNextPage |-> page < totalPages,
     hasPreviousPage |-> page > 1,
     success |-> TRUE,
     message |-> <<"Retrieved ", total, " products">>]

\* the response map of the paginated envelope
paginatedResponse(pageItems, total, pageSize, page, totalPages) ==
    [items |-> itemStrings(pageItems),
     totalCount |-> total,
     pageSize |-> pageSize,
     currentPage |-> page,
     totalPages |-> totalPages,
     hasNextPage |-> page < totalPages,
     hasPreviousPage |-> page > 1,
     success |-> TRUE,
     message |-> <<"Retrieved ", Len(pageItems), " products">>]

\* "Calculate pagination" to the return: the envelope, or the panic of the
\* division or of the slice expression
paginatedProducts(filtered, page, pageSize) ==
    LET total == Len(filtered)
        pageItems == pageItemsOf(filtered, page, pageSize)
    IN  IF pageSize = 0
        THEN Panic("integer divide by zero")
        ELSE IF pageItems.status = "panic"
        THEN pageItems
        ELSE Ok(paginatedResponse(pageItems.value, total, pageSize, page,
                                  totalPagesOf(total, pageSize)))

\* the defaults getProductsPaginatedResolver hands to the argument accessors
productsDefaults == [page |-> 1, pageSize |-> 5, category |-> ""]

getProductsPaginatedResolver(rawArgs) ==
    LET page == GetIntArg(rawArgs, "page", productsDefaults.page)
        pageSize == GetIntArg(rawArgs, "pageSize", productsDefaults.pageSize)
        category == GetStringArg(rawArgs, "category", productsDefaults.category)
    IN  paginatedProducts(filteredProducts(allProducts, category), page, pageSize)

\* argument mappings a caller can pass to getProductsPaginated
Categories == {"", "electronics", "kitchen", "books", "toys"}
StringArgValues(strings) == {AbsentV, NullV, IntV(1)} \cup {StrV(c) : c \in strings}
GetProductsPaginatedArgs ==
    [page : IntArgValues, pageSize : IntArgValues, category : StringArgValues(Categories)]

(***************************************************************************)
(* createUserResolver                                                      *)
(***************************************************************************)
\* the validation with the username test left out
inputRejectedNoUsername(name, email, username) ==
    name = "" \/ email = ""

\* "Validate input": the condition under which the input is rejected
inputRejected(name, email, username) ==
    name = "" \/ email = "" \/ username = ""

\* the rejection envelope with its errors list left nil
validationFailureNoErrors ==
    [success |-> FALSE,
     message |-> "Name, email, and username are required",
     data |-> Nil,
     errors |-> Nil]

\* the rejection envelope naming only the first required field
validationFailureFirstField ==
    [success |-> FALSE,
     message |-> "Name, email, and username are required",
     data |-> Nil,
     errors |-> NonNil(<< [code |-> "VALIDATION_ERROR",
                           message |-> "Missing required fields",
                           field |-> "name",
                           details |-> <<"All fields are required for user creation">>] >>)]

\* the envelope returned when the input is rejected
validationFailure ==
    [success |-> FALSE,
     message |-> "Name, email, and username are required",
     data |-> Nil,
     errors |-> NonNil(<< [code |-> "VALIDATION_ERROR",
                           message |-> "Missing required fields",
                           field |-> "name,email,username",
                           details |-> <<"All fields are required for user creation">>] >>)]

\* an id drawn from a counter the plugin would keep between invocations
userIdSerial(t) == <<"user_", Len(createdIds)>>

\* fmt.Sprintf("user_%d", time.Now().Unix())
userId(t) == <<"user_", t>>

\* the new user with email and username exchanged
newUserSwapped(name, email, username, t1, t2) ==
    [id |-> userId(t1),
     name |-> name,
     email |-> username,
     username |-> email,
     active |-> TRUE,
     createdAt |-> FormatRFC3339(t2)]

\* "Create new user (simulated)"; t1 and t2 are the two readings of time.Now()
newUser(name, email, username, t1, t2) ==
    [id |-> userId(t1),
     name |-> name,
     email |-> email,
     username |-> username,
     active |-> TRUE,
     createdAt |-> FormatRFC3339(t2)]

\* "Return success response"
successResponse(user) ==
    [success |-> TRUE,
     message |-> "User created successfully",
     data |-> NonNil(user),
     errors |-> Nil]

createUserResolver(rawArgs, t1, t2) ==
    LET input == GetObjectArg(rawArgs, "input")
        name == GetStringArg(input, "name", "")
        email == GetStringArg(input, "email", "")
        username == GetStringArg(input, "username", "")
    IN  IF inputRejected(name, email, username)
        THEN Ok(validationFailure)
        ELSE Ok(successResponse(newUser(name, email, username, t1, t2)))

\* argument mappings a caller can pass to createUser
Names == {"", "Ann", "Bo"}
Emails == {"", "a@b.com"}
Usernames == {"", "bob"}
InputObjects ==
    [name : StringArgValues(Names), email : StringArgValues(Emails),
     username : StringArgValues(Usernames), role : {AbsentV, StrV("admin")}]
CreateUserArgs ==
    [input : {AbsentV, NullV, StrV("x")} \cup {ObjV(m) : m \in InputObjects}]

\* successive readings of the clock during one createUser invocation
ClockReadings2 == {tt \in (now..MaxClock) \X (now..MaxClock) :
                     tt[1] <= tt[2] /\ tt[2] <= now + 1}

(***************************************************************************)
(* The single-record resolvers, the REST handlers and the custom function  *)
(***************************************************************************)
\* the User object getUserProfileResolver returns; t is its reading of time.Now()
getUserProfileResolver(rawArgs, t) ==
    LET userID == GetStringArg(rawArgs, "userId", "default-user")
    IN  Ok([id |-> userID, name |-> "John Doe", email |-> "john.doe@example.com",
            username |-> "johndoe",
            address |-> [street |-> "123 Main St", city |-> "New York", state |-> "NY", zip |-> "10001"],
            tags |-> << [key |-> "department", val |-> "engineering"],
                        [key |-> "level", val |-> "senior"],
                        [key |-> "team", val |-> "backend"] >>,
            active |-> TRUE, createdAt |-> FormatRFC3339(t)])

getProductResolver(rawArgs) ==
    LET productID == GetStringArg(rawArgs, "productId", "default-product")
    IN  Ok([id |-> productID, name |-> "Sample Product",
            description |-> "This is a sample product from the plugin",
            price |-> "29.99", stock |-> 100,
            tags |-> <<"sample", "plugin", "demo">>,
            categories |-> <<"electronics", "gadgets">>])

\* (startNormalPlugin registers this resolver under no name: nothing invokes it)
sayHelloResolver(rawArgs) ==
    LET message == GetStringArg(rawArgs, "message", "Hello!")
    IN  Ok(<<"Plugin says: ", message,
             " (from hc-hello-world-plugin using SDK with Auto-Parsing)">>)

helloRESTHandler(restArgs, t) ==
    Ok([message |-> "Hello World from REST API (SDK Version)!",
        timestamp |-> FormatRFC3339(t),
        plugin |-> "hc-hello-world-plugin",
        version |-> "2.0.0-sdk"])

\* the value replaces the fallback whenever it is a string, the empty one included
nonEmptyStringOrAny(restArgs, key, fallback) ==
    IF restArgs[key].t = "string" THEN restArgs[key].v ELSE fallback

\* args[key].(string) with ok && value != "": the value replaces the fallback
nonEmptyStringOr(restArgs, key, fallback) ==
    IF restArgs[key].t = "string" /\ restArgs[key].v # ""
    THEN restArgs[key].v
    ELSE fallback

customHelloRESTHandler(restArgs) ==
    LET name == nonEmptyStringOr(restArgs, "name", "World")
        message == nonEmptyStringOr(restArgs, "message", "Hello")
    IN  Ok([greeting |-> <<message, ", ", name, "! (SDK Version)">>,
            plugin |-> "hc-hello-world-plugin",
            version |-> "2.0.0-sdk"])

statusRESTHandler(restArgs) ==
    Ok([status |-> "running",
        version |-> "2.0.0-sdk",
        sdk |-> "github.com/apito-io/go-apito-plugin-sdk",
        features |-> <<"GraphQL Queries", "GraphQL Mutations", "REST APIs", "Custom Functions">>])

customFunction(fnArgs) ==
    Ok("Custom function executed successfully (SDK Version)")

\* argument mappings a caller can pass to these operations
GetUserProfileArgs == [userId : StringArgValues({"", "u1"})]
GetProductArgs == [productId : StringArgValues({"", "p1"})]
SayHelloArgs == [message : StringArgValues({"", "Hi"})]
RESTArgs == [name : StringArgValues({"", "Ann"}), message : StringArgValues({"", "Hi"})]

\* the reading of the clock taken by an invocation that reads it once
ClockReadings1 == {t \in now..MaxClock : t <= now + 1}

(***************************************************************************)
(* helloWorldResolver.  The response is built line by line; a line is the  *)
(* tuple of the pieces fmt.Sprintf puts together.                          *)
(***************************************************************************)
ArrV(s) == [t |-> "array", v |-> s]

\* sdk.GetArrayArg(args, key): the list, or an empty list
GetArrayArg(m, key) ==
    IF m[key].t = "array" THEN m[key].v ELSE <<>>

\* keys of the objects helloWorldResolver reads
HelloKeys == {"name", "age"}
EmptyHelloObject == [k \in HelloKeys |-> AbsentV]

\* sdk.GetObjectArg(args, "object"): the nested mapping, or an empty mapping
GetHelloObjectArg(m, key) ==
    IF m[key].t = "object" THEN m[key].v ELSE EmptyHelloObject

\* len(obj) of a mapping: the keys it holds
MapLen(obj) == Cardinality({k \in DOMAIN obj : obj[k].t # "absent"})

\* a context line written whatever the value is
contextLineAlways(label, value) == << <<label, value>> >>

\* if value != "" { result.WriteString(fmt.Sprintf(label + "%s\n", value)) }
contextLine(label, value) ==
    IF value # "" THEN << <<label, value>> >> ELSE <<>>

\* fmt.Sprintf("Hello, %s!\n", name)
greetingLine(name) == <<"Hello, ", name, "!">>

\* "Object received: " followed by fmt.Sprintf("name=%s age=%d\n", objName, objAge)
objectLine(obj) ==
    <<"Object received: ", "name=", GetStringArg(obj, "name", ""),
      " age=", GetIntArg(obj, "age", 0)>>

\* fmt.Sprintf("  Object %d: name=%s age=%d\n", i+1, objName, objAge)
arrayLine(i, obj) ==
    <<"  Object ", i, ": name=", GetStringArg(obj, "name", ""),
      " age=", GetIntArg(obj, "age", 0)>>

\* the loop over arrObjs from entry i on: a line for each entry that is a mapping
RECURSIVE arrayLines(_, _)
arrayLines(arrObjs, i) ==
    IF i > Len(arrObjs)
    THEN <<>>
    ELSE (IF arrObjs[i].t = "object" THEN <<arrayLine(i, arrObjs[i].v)>> ELSE <<>>)
         \o arrayLines(arrObjs, i + 1)

helloWorldResolver(rawArgs) ==
    LET name == GetStringArg(rawArgs, "name", "World")
        obj == GetHelloObjectArg(rawArgs, "object")
        arrObjs == GetArrayArg(rawArgs, "arrayofObjects")
    IN  Ok(<< <<"Hello World Plugin Response (SDK Version with Auto-Parsing):">> >>
           \o contextLine("Plugin ID: ", rawArgs.pluginId)
           \o contextLine("Project ID: ", rawArgs.projectId)
           \o contextLine("User ID: ", rawArgs.userId)
           \o contextLine("Tenant ID: ", rawArgs.tenantId)
           \o <<greetingLine(name)>>
           \o (IF MapLen(obj) > 0 THEN <<objectLine(obj)>> ELSE <<>>)
           \o (IF Len(arrObjs) > 0
               THEN << <<"Array of Objects received:">> >> \o arrayLines(arrObjs, 1)
               ELSE <<>>))

\* argument mappings a caller can pass to the hello-world query, with the
\* context values the host puts into them
HelloObjects ==
    { EmptyHelloObject,
      [name |-> StrV("Bo"), age |-> IntV(3)],
      [name |-> AbsentV, age |-> IntV(4)] }
HelloArrays ==
    { <<>>,
      << ObjV([name |-> StrV("Bo"), age |-> IntV(3)]) >>,
      << ObjV([name |-> StrV("Bo"), age |-> IntV(3)]), ObjV([name |-> StrV("Cy"), age |-> AbsentV]) >>,
      << StrV("x"), ObjV([name |-> StrV("Cy"), age |-> IntV(4)]) >> }
HelloWorldArgs ==
    [pluginId : {"", "plugin-1"}, projectId : {"", "project-1"},
     userId : {"", "user-1"}, tenantId : {"", "tenant-1"},
     name : {AbsentV, StrV("Ann"), IntV(1)},
     object : {AbsentV} \cup {ObjV(o) : o \in HelloObjects},
     arrayofObjects : {AbsentV} \cup {ArrV(a) : a \in HelloArrays}]

(***************************************************************************)
(* startNormalPlugin                                                       *)
(***************************************************************************)
\* the Register* statements of startNormalPlugin, in program order
registrations ==
    << [kind |-> "query", name |-> "helloWorldQueryFahim", resolver |-> "helloWorldResolver"],
       [kind |-> "query", name |-> "getUserProfile", resolver |-> "getUserProfileResolver"],
       [kind |-> "query", name |-> "getUsers", resolver |-> "getUsersResolver"],
       [kind |-> "query", name |-> "getProduct", resolver |-> "getProductResolver"],
       [kind |-> "query", name |-> "getProductsPaginated", resolver |-> "getProductsPaginatedResolver"],
       [kind |-> "mutation", name |-> "createUser", resolver |-> "createUserResolver"],
       [kind |-> "mutation", name |-> "processBulkTags", resolver |-> "processBulkTagsResolver"],
       [kind |-> "function", name |-> "customFunction", resolver |-> "customFunction"],
       [kind |-> "rest", name |-> "GET /hello", resolver |-> "helloRESTHandler"],
       [kind |-> "rest", name |-> "POST /custom-hello", resolver |-> "customHelloRESTHandler"],
       [kind |-> "rest", name |-> "GET /status", resolver |-> "statusRESTHandler"] >>

\* the field name each resolver function hands to sdk.ParseArgsForResolver
parseNames ==
    { [resolver |-> "helloWorldResolver", name |-> "helloWorldQuery"],
      [resolver |-> "processComplexDataResolver", name |-> "processComplexData"],
      [resolver |-> "sayHelloResolver", name |-> "sayHelloMutation"],
      [resolver |-> "getUserProfileResolver", name |-> "getUserProfile"],
      [resolver |-> "getUsersResolver", name |-> "getUsers"],
      [resolver |-> "getProductsPaginatedResolver", name |-> "getProductsPaginated"],
      [resolver |-> "createUserResolver", name |-> "createUser"],
      [resolver |-> "getProductResolver", name |-> "getProduct"],
      [resolver |-> "processBulkTagsResolver", name |-> "processBulkTags"] }

\* values of PLUGIN_DEBUG_MODE the plugin is started with
DebugModes == {"true", "false"}

\* the plugin object before sdk.Init and as sdk.Init returns it
NoPlugin == [name |-> "", version |-> "", queries |-> <<>>, mutations |-> <<>>,
             functions |-> <<>>, restAPIs |-> <<>>]
NewPlugin == [name |-> "hc-hello-world-plugin", version |-> "2.0.0-sdk", queries |-> <<>>,
              mutations |-> <<>>, functions |-> <<>>, restAPIs |-> <<>>]

\* number of Register* statements executed so far
registered ==
    Len(plugin.queries) + Len(plugin.mutations) + Len(plugin.functions) + Len(plugin.restAPIs)

\* the Register* statement startNormalPlugin executes next
nextRegistration == registrations[registered + 1]

\* Serve called straight after the first Register* statement
afterRegistrationServing == "serve"

\* position after the Register* statement being executed
afterRegistration == IF registered + 1 = Len(registrations) THEN "serve" ELSE "register"

\* the binding a Register* statement adds
binding(r) == [name |-> r.name, resolver |-> r.resolver]

\* the plugin serves and has resolver bound to name in the table of that kind
Serving(table, name, resolver) ==
    /\ pc = "serving"
    /\ \E k \in 1..Len(plugin[table]) :
          plugin[table][k] = [name |-> name, resolver |-> resolver]

(***************************************************************************)
(* Invocations in parallel.  The host calls the resolvers from several     *)
(* goroutines; each invocation runs its statement groups one at a time:    *)
(* build the collection, filter it, paginate and return.  A collection is  *)
(* a backing array on the heap, and the invocation holds references to it. *)
(***************************************************************************)
\* the goroutines that serve requests
Slots == {"g1", "g2"}

\* one shared array for the collections of every invocation
seedAddrShared(i) == <<"g1", "seed">>

\* users := []interface{}{...} and allProducts := []interface{}{...}: a new
\* array at each execution of the statement
seedAddr(i) == <<i, "seed">>

\* var filteredUsers []interface{} and var filteredProducts []interface{}: a
\* new array grown by append
filteredAddr(i) == <<i, "filtered">>

Addresses == Slots \X {"seed", "filtered"}

\* a reference that points at nothing
NoRef == <<>>

\* a goroutine with no invocation
Idle == [pc |-> "idle", op |-> "none", args |-> <<>>, reads |-> <<>>,
         seed |-> NoRef, filtered |-> NoRef, out |-> NoResult]

\* the operations invoked in parallel, under the names they are registered with
parallelOperations ==
    { [table |-> "queries", name |-> "getUsers", resolver |-> "getUsersResolver"],
      [table |-> "queries", name |-> "getProductsPaginated", resolver |-> "getProductsPaginatedResolver"],
      [table |-> "mutations", name |-> "createUser", resolver |-> "createUserResolver"],
      [table |-> "queries", name |-> "getUserProfile", resolver |-> "getUserProfileResolver"],
      [table |-> "restAPIs", name |-> "GET /hello", resolver |-> "helloRESTHandler"] }

\* argument mappings passed to the invocations in parallel
ParallelArgs(name) ==
    CASE name = "getUsers" ->
           [limit : {AbsentV, IntV(1)}, offset : {AbsentV, IntV(1)},
            active : {AbsentV, BoolV(FALSE)}]
      [] name = "getProductsPaginated" ->
           [page : {AbsentV, IntV(2)}, pageSize : {IntV(2)},
            category : {AbsentV, StrV("electronics")}]
      [] name = "createUser" ->
           [input : {AbsentV,
                     ObjV([name |-> StrV("Ann"), email |-> StrV("a@b.com"),
                           username |-> StrV("bob"), role |-> AbsentV])}]
      [] name = "getUserProfile" -> [userId : {AbsentV, StrV("u1")}]
      [] name = "GET /hello" -> [name : {AbsentV}, message : {AbsentV}]

\* what the invocation c returns when it runs alone with the clock readings it took
sequentialOutcome(c) ==
    CASE c.op = "getUsers" -> getUsersResolver(c.args, c.reads[1], c.reads[2], c.reads[3])
      [] c.op = "getProductsPaginated" -> getProductsPaginatedResolver(c.args)
      [] c.op = "createUser" -> createUserResolver(c.args, c.reads[1], c.reads[2])
      [] c.op = "getUserProfile" -> getUserProfileResolver(c.args, c.reads[1])
      [] c.op = "GET /hello" -> helloRESTHandler(c.args, c.reads[1])

(***************************************************************************)
(* runDebug.sh.  bash runs the script command by command; a trapped signal *)
(* that arrives while a command runs in the foreground is held until that  *)
(* command has completed, and the EXIT trap runs when the shell exits.     *)
(***************************************************************************)
\* the signals and the pseudo-signal of "trap cleanup INT TERM EXIT"
trappedSignalsNoExit == {"INT", "TERM"}
trappedSignals == {"INT", "TERM", "EXIT"}

\* what cleanup sends to the process it finds on the port, in order
cleanupKills == <<"TERM", "KILL">>

\* the shell before ./runDebug.sh is started.  port says who listens on PORT:
\* nobody ("free"), a process that was there before or came up meanwhile
\* ("stale": a delve of an earlier session, or anything else), or the delve
\* this run has attached ("dlv")
NotStarted ==
    [pc |-> "none", pidGiven |-> FALSE, pluginRunning |-> FALSE, port |-> "free",
     trap |-> {}, pending |-> "none", running |-> "none", observedFree |-> FALSE,
     portHeld |-> FALSE, attached |-> FALSE, delve_pid |-> "", sent |-> <<>>,
     cleanups |-> 0,
     status |-> "none"]

\* the shell exits with status n: the EXIT trap runs cleanup when it is set
\* and not already running, otherwise the process ends
shellExit(st, n) ==
    IF "EXIT" \in st.trap /\ st.running # "EXIT"
    THEN [st EXCEPT !.pc = "cleanup", !.running = "EXIT", !.status = n]
    ELSE [st EXCEPT !.pc = "exited", !.status = n]

Init ==
    /\ script = NotStarted
    /\ calls = [i \in Slots |-> Idle]
    /\ heap = [a \in Addresses |-> <<>>]
    /\ now = 0
    /\ op = "none"
    /\ args = <<>>
    /\ result = NoResult
    /\ createdIds = <<>>
    /\ pc = "start"
    /\ debugMode \in DebugModes
    /\ banner = FALSE
    /\ plugin = NoPlugin

\* lines 671-707: read PLUGIN_DEBUG_MODE and print the banner when it is "true"
StartPlugin ==
    /\ pc = "start"
    /\ banner' = (debugMode = "true")
    /\ pc' = "init"
    /\ UNCHANGED <<now, op, args, result, createdIds, debugMode, plugin, calls, heap, script>>

\* line 710: plugin := sdk.Init(...)
SdkInit ==
    /\ pc = "init"
    /\ plugin' = NewPlugin
    /\ pc' = "register"
    /\ UNCHANGED <<now, op, args, result, createdIds, debugMode, banner, calls, heap, script>>

RegisterQuery ==
    /\ pc = "register"
    /\ nextRegistration.kind = "query"
    /\ plugin' = [plugin EXCEPT !.queries = Append(@, binding(nextRegistration))]
    /\ pc' = afterRegistration
    /\ UNCHANGED <<now, op, args, result, createdIds, debugMode, banner, calls, heap, script>>

RegisterMutation ==
    /\ pc = "register"
    /\ nextRegistration.kind = "mutation"
    /\ plugin' = [plugin EXCEPT !.mutations = Append(@, binding(nextRegistration))]
    /\ pc' = afterRegistration
    /\ UNCHANGED <<now, op, args, result, createdIds, debugMode, banner, calls, heap, script>>

RegisterFunction ==
    /\ pc = "register"
    /\ nextRegistration.kind = "function"
    /\ plugin' = [plugin EXCEPT !.functions = Append(@, binding(nextRegistration))]
    /\ pc' = afterRegistration
    /\ UNCHANGED <<now, op, args, result, createdIds, debugMode, banner, calls, heap, script>>

RegisterRESTAPI ==
    /\ pc = "register"
    /\ nextRegistration.kind = "rest"
    /\ plugin' = [plugin EXCEPT !.restAPIs = Append(@, binding(nextRegistration))]
    /\ pc' = afterRegistration
    /\ UNCHANGED <<now, op, args, result, createdIds, debugMode, banner, calls, heap, script>>

\* line 871: plugin.Serve()
Serve ==
    /\ pc = "serve"
    /\ pc' = "serving"
    /\ UNCHANGED <<now, op, args, result, createdIds, debugMode, banner, plugin, calls, heap, script>>

\* the wall clock advances between invocations
Tick ==
    /\ pc = "serving"
    /\ op = "none"
    /\ now < MaxClock
    /\ now' = now + 1
    /\ UNCHANGED <<op, args, result, createdIds>>
    /\ UNCHANGED startup
    /\ UNCHANGED script
    /\ UNCHANGED parallel

GetUsers ==
    /\ Serving("queries", "getUsers", "getUsersResolver")
    /\ op = "none"
    /\ UNCHANGED startup
    /\ UNCHANGED script
    /\ UNCHANGED parallel
    /\ \E a \in GetUsersArgs, tt \in ClockReadings :
        /\ op' = "getUsers"
        /\ args' = a
        /\ result' = getUsersResolver(a, tt[1], tt[2], tt[3])
        /\ now' = tt[3]
        /\ UNCHANGED createdIds

GetProductsPaginated ==
    /\ Serving("queries", "getProductsPaginated", "getProductsPaginatedResolver")
    /\ op = "none"
    /\ UNCHANGED startup
    /\ UNCHANGED script
    /\ UNCHANGED parallel
    /\ \E a \in GetProductsPaginatedArgs :
        /\ op' = "getProductsPaginated"
        /\ args' = a
        /\ result' = getProductsPaginatedResolver(a)
        /\ UNCHANGED <<now, createdIds>>

CreateUser ==
    /\ Serving("mutations", "createUser", "createUserResolver")
    /\ op = "none"
    /\ UNCHANGED startup
    /\ UNCHANGED script
    /\ UNCHANGED parallel
    /\ Len(createdIds) < MaxCalls
    /\ \E a \in CreateUserArgs, tt \in ClockReadings2 :
        LET r == createUserResolver(a, tt[1], tt[2])
        IN  /\ op' = "createUser"
            /\ args' = a
            /\ result' = r
            /\ now' = tt[2]
            /\ createdIds' = IF r.value.success
                              THEN Append(createdIds, r.value.data.v.id)
                              ELSE createdIds

GetUserProfile ==
    /\ Serving("queries", "getUserProfile", "getUserProfileResolver")
    /\ op = "none"
    /\ UNCHANGED startup
    /\ UNCHANGED script
    /\ UNCHANGED parallel
    /\ \E a \in GetUserProfileArgs, t \in ClockReadings1 :
        /\ op' = "getUserProfile"
        /\ args' = a
        /\ result' = getUserProfileResolver(a, t)
        /\ now' = t
        /\ UNCHANGED createdIds

GetProduct ==
    /\ Serving("queries", "getProduct", "getProductResolver")
    /\ op = "none"
    /\ UNCHANGED startup
    /\ UNCHANGED script
    /\ UNCHANGED parallel
    /\ \E a \in GetProductArgs :
        /\ op' = "getProduct"
        /\ args' = a
        /\ result' = getProductResolver(a)
        /\ UNCHANGED <<now, createdIds>>

HelloREST ==
    /\ Serving("restAPIs", "GET /hello", "helloRESTHandler")
    /\ op = "none"
    /\ UNCHANGED startup
    /\ UNCHANGED script
    /\ UNCHANGED parallel
    /\ \E a \in RESTArgs, t \in ClockReadings1 :
        /\ op' = "GET /hello"
        /\ args' = a
        /\ result' = helloRESTHandler(a, t)
        /\ now' = t
        /\ UNCHANGED createdIds

CustomHelloREST ==
    /\ Serving("restAPIs", "POST /custom-hello", "customHelloRESTHandler")
    /\ op = "none"
    /\ UNCHANGED startup
    /\ UNCHANGED script
    /\ UNCHANGED parallel
    /\ \E a \in RESTArgs :
        /\ op' = "POST /custom-hello"
        /\ args' = a
        /\ result' = customHelloRESTHandler(a)
        /\ UNCHANGED <<now, createdIds>>

StatusREST ==
    /\ Serving("restAPIs", "GET /status", "statusRESTHandler")
    /\ op = "none"
    /\ UNCHANGED startup
    /\ UNCHANGED script
    /\ UNCHANGED parallel
    /\ \E a \in RESTArgs :
        /\ op' = "GET /status"
        /\ args' = a
        /\ result' = statusRESTHandler(a)
        /\ UNCHANGED <<now, createdIds>>

HelloWorld ==
    /\ Serving("queries", "helloWorldQueryFahim", "helloWorldResolver")
    /\ op = "none"
    /\ UNCHANGED startup
    /\ UNCHANGED script
    /\ UNCHANGED parallel
    /\ \E a \in HelloWorldArgs :
        /\ op' = "helloWorldQueryFahim"
        /\ args' = a
        /\ result' = helloWorldResolver(a)
        /\ UNCHANGED <<now, createdIds>>

CustomFunction ==
    /\ Serving("functions", "customFunction", "customFunction")
    /\ op = "none"
    /\ UNCHANGED startup
    /\ UNCHANGED script
    /\ UNCHANGED parallel
    /\ \E a \in RESTArgs :
        /\ op' = "customFunction"
        /\ args' = a
        /\ result' = customFunction(a)
        /\ UNCHANGED <<now, createdIds>>

\* the transport layer takes the outcome; the plugin waits for the next request
Respond ==
    /\ op # "none"
    /\ op' = "none"
    /\ args' = <<>>
    /\ result' = NoResult
    /\ UNCHANGED <<now, createdIds>>
    /\ UNCHANGED startup
    /\ UNCHANGED script
    /\ UNCHANGED parallel

Next ==
    \/ StartPlugin
    \/ SdkInit
    \/ RegisterQuery
    \/ RegisterMutation
    \/ RegisterFunction
    \/ RegisterRESTAPI
    \/ Serve
    \/ Tick
    \/ Respond
    \/ GetUsers
    \/ GetProductsPaginated
    \/ CreateUser
    \/ GetUserProfile
    \/ GetProduct
    \/ HelloREST
    \/ CustomHelloREST
    \/ StatusREST
    \/ CustomFunction
    \/ HelloWorld

Spec == Init /\ [][Next]_vars

(***************************************************************************)
(* The steps of the invocations in parallel                                *)
(***************************************************************************)
\* the host hands a request to goroutine i
Call(i) ==
    /\ pc = "serving"
    /\ calls[i].pc = "idle"
    /\ UNCHANGED <<now, createdIds, heap>>
    /\ UNCHANGED single
    /\ UNCHANGED startup
    /\ UNCHANGED script
    /\ \E r \in parallelOperations :
        /\ Serving(r.table, r.name, r.resolver)
        /\ \E a \in ParallelArgs(r.name) :
            calls' = [calls EXCEPT ![i] = [Idle EXCEPT !.pc = "called", !.op = r.name, !.args = a]]

\* getUsersResolver lines 340-402: parse the arguments, build users
UsersSeed(i) ==
    /\ calls[i].pc = "called"
    /\ calls[i].op = "getUsers"
    /\ UNCHANGED createdIds
    /\ UNCHANGED single
    /\ UNCHANGED startup
    /\ UNCHANGED script
    /\ \E tt \in ClockReadings :
        /\ heap' = [heap EXCEPT ![seedAddr(i)] = users(tt[1], tt[2], tt[3])]
        /\ calls' = [calls EXCEPT ![i].pc = "seeded", ![i].reads = tt, ![i].seed = seedAddr(i)]
        /\ now' = tt[3]

\* getUsersResolver lines 404-411: append the users that pass to filteredUsers
UsersFilter(i) ==
    /\ calls[i].pc = "seeded"
    /\ calls[i].op = "getUsers"
    /\ heap' = [heap EXCEPT ![filteredAddr(i)] =
                    filteredUsers(heap[calls[i].seed],
                                  GetBoolArg(calls[i].args, "active", usersDefaults.active))]
    /\ calls' = [calls EXCEPT ![i].pc = "filtered", ![i].filtered = filteredAddr(i)]
    /\ UNCHANGED <<now, createdIds>>
    /\ UNCHANGED single
    /\ UNCHANGED startup
    /\ UNCHANGED script

\* getUsersResolver lines 413-434: slice filteredUsers and return
UsersPaginate(i) ==
    /\ calls[i].pc = "filtered"
    /\ calls[i].op = "getUsers"
    /\ calls' = [calls EXCEPT ![i].pc = "returned",
                              ![i].out = paginatedUsers(heap[calls[i].filtered],
                                   GetIntArg(calls[i].args, "offset", usersDefaults.offset),
                                   GetIntArg(calls[i].args, "limit", usersDefaults.limit))]
    /\ UNCHANGED <<now, createdIds, heap>>
    /\ UNCHANGED single
    /\ UNCHANGED startup
    /\ UNCHANGED script

\* getProductsPaginatedResolver lines 443-478: parse the arguments, build allProducts
ProductsSeed(i) ==
    /\ calls[i].pc = "called"
    /\ calls[i].op = "getProductsPaginated"
    /\ heap' = [heap EXCEPT ![seedAddr(i)] = allProducts]
    /\ calls' = [calls EXCEPT ![i].pc = "seeded", ![i].seed = seedAddr(i)]
    /\ UNCHANGED <<now, createdIds>>
    /\ UNCHANGED single
    /\ UNCHANGED startup
    /\ UNCHANGED script

\* getProductsPaginatedResolver lines 480-495: filteredProducts is allProducts
\* itself, or a new collection when a category is given
ProductsFilter(i) ==
    /\ calls[i].pc = "seeded"
    /\ calls[i].op = "getProductsPaginated"
    /\ LET category == GetStringArg(calls[i].args, "category", productsDefaults.category)
       IN  IF category = ""
           THEN /\ calls' = [calls EXCEPT ![i].pc = "filtered", ![i].filtered = calls[i].seed]
                /\ UNCHANGED heap
           ELSE /\ calls' = [calls EXCEPT ![i].pc = "filtered", ![i].filtered = filteredAddr(i)]
                /\ heap' = [heap EXCEPT ![filteredAddr(i)] =
                                filteredProducts(heap[calls[i].seed], category)]
    /\ UNCHANGED <<now, createdIds>>
    /\ UNCHANGED single
    /\ UNCHANGED startup
    /\ UNCHANGED script

\* getProductsPaginatedResolver lines 497-535: page arithmetic, slice, envelope
ProductsPaginate(i) ==
    /\ calls[i].pc = "filtered"
    /\ calls[i].op = "getProductsPaginated"
    /\ calls' = [calls EXCEPT ![i].pc = "returned",
                              ![i].out = paginatedProducts(heap[calls[i].filtered],
                                   GetIntArg(calls[i].args, "page", productsDefaults.page),
                                   GetIntArg(calls[i].args, "pageSize", productsDefaults.pageSize))]
    /\ UNCHANGED <<now, createdIds, heap>>
    /\ UNCHANGED single
    /\ UNCHANGED startup
    /\ UNCHANGED script

\* createUserResolver: it builds no collection, one step
CreateUserRun(i) ==
    /\ calls[i].pc = "called"
    /\ calls[i].op = "createUser"
    /\ Len(createdIds) < MaxCalls
    /\ UNCHANGED heap
    /\ UNCHANGED single
    /\ UNCHANGED startup
    /\ UNCHANGED script
    /\ \E tt \in ClockReadings2 :
        LET r == createUserResolver(calls[i].args, tt[1], tt[2])
        IN  /\ calls' = [calls EXCEPT ![i].pc = "returned", ![i].reads = tt, ![i].out = r]
            /\ now' = tt[2]
            /\ createdIds' = IF r.value.success
                              THEN Append(createdIds, r.value.data.v.id)
                              ELSE createdIds

\* getUserProfileResolver: one step
GetUserProfileRun(i) ==
    /\ calls[i].pc = "called"
    /\ calls[i].op = "getUserProfile"
    /\ UNCHANGED <<createdIds, heap>>
    /\ UNCHANGED single
    /\ UNCHANGED startup
    /\ UNCHANGED script
    /\ \E t \in ClockReadings1 :
        /\ calls' = [calls EXCEPT ![i].pc = "returned", ![i].reads = <<t>>,
                                  ![i].out = getUserProfileResolver(calls[i].args, t)]
        /\ now' = t

\* helloRESTHandler: one step
HelloRESTRun(i) ==
    /\ calls[i].pc = "called"
    /\ calls[i].op = "GET /hello"
    /\ UNCHANGED <<createdIds, heap>>
    /\ UNCHANGED single
    /\ UNCHANGED startup
    /\ UNCHANGED script
    /\ \E t \in ClockReadings1 :
        /\ calls' = [calls EXCEPT ![i].pc = "returned", ![i].reads = <<t>>,
                                  ![i].out = helloRESTHandler(calls[i].args, t)]
        /\ now' = t

\* the transport layer takes the outcome of goroutine i; the collections of
\* the invocation are unreachable from then on
Return(i) ==
    /\ calls[i].pc = "returned"
    /\ calls' = [calls EXCEPT ![i] = Idle]
    /\ heap' = [a \in Addresses |->
                    IF a \in {calls[i].seed, calls[i].filtered} THEN <<>> ELSE heap[a]]
    /\ UNCHANGED <<now, createdIds>>
    /\ UNCHANGED single
    /\ UNCHANGED startup
    /\ UNCHANGED script

NextPar ==
    \/ StartPlugin
    \/ SdkInit
    \/ RegisterQuery
    \/ RegisterMutation
    \/ RegisterFunction
    \/ RegisterRESTAPI
    \/ Serve
    \/ Tick
    \/ \E i \in Slots : Call(i)
    \/ \E i \in Slots : UsersSeed(i)
    \/ \E i \in Slots : UsersFilter(i)
    \/ \E i \in Slots : UsersPaginate(i)
    \/ \E i \in Slots : ProductsSeed(i)
    \/ \E i \in Slots : ProductsFilter(i)
    \/ \E i \in Slots : ProductsPaginate(i)
    \/ \E i \in Slots : CreateUserRun(i)
    \/ \E i \in Slots : GetUserProfileRun(i)
    \/ \E i \in Slots : HelloRESTRun(i)
    \/ \E i \in Slots : Return(i)

SpecPar == Init /\ [][NextPar]_vars

(***************************************************************************)
(* The steps of runDebug.sh                                                *)
(***************************************************************************)
plugin_state == <<now, op, args, result, createdIds, pc, debugMode, banner, plugin, calls, heap>>

\* ./runDebug.sh [PID] is started, with or without the argument, with the
\* plugin running or not, with the port free or held
RunDebug ==
    /\ script.pc = "none"
    /\ \E given \in BOOLEAN, running \in BOOLEAN, holder \in {"free", "stale"} :
          script' = [NotStarted EXCEPT !.pc = "pid", !.pidGiven = given,
                                       !.pluginRunning = running, !.port = holder]
    /\ UNCHANGED plugin_state

\* lines 41-51: PID from the argument or from pgrep; exit 1 when there is none
FindPid ==
    /\ script.pc = "pid"
    /\ script' = IF script.pidGiven \/ script.pluginRunning
                 THEN [script EXCEPT !.pc = "trap"]
                 ELSE shellExit(script, 1)
    /\ UNCHANGED plugin_state

\* line 69: trap cleanup INT TERM EXIT
InstallTrap ==
    /\ script.pc = "trap"
    /\ script' = [script EXCEPT !.pc = "check", !.trap = trappedSignals]
    /\ UNCHANGED plugin_state

\* a trapped signal held by the shell is handled before the next command
Ready(at) == script.pc = at /\ script.pending = "none"

\* check_and_kill_port lines 15-20, 36-38: lsof; the port is available or in use
CheckPort ==
    /\ Ready("check")
    /\ script' = IF script.port # "free"
                 THEN [script EXCEPT !.pc = "kill"]
                 ELSE [script EXCEPT !.pc = "attach", !.observedFree = TRUE]
    /\ UNCHANGED plugin_state

\* check_and_kill_port lines 23-26: kill -9 and sleep 1; the process is gone,
\* or it is still there or has come up again
KillExisting ==
    /\ Ready("kill")
    /\ \E holder \in {"free", "stale"} :
          script' = [script EXCEPT !.pc = "recheck", !.port = holder]
    /\ UNCHANGED plugin_state

\* check_and_kill_port lines 29-35: lsof again; exit 1 when the port is still in use
Recheck ==
    /\ Ready("recheck")
    /\ script' = IF script.port # "free"
                 THEN shellExit([script EXCEPT !.portHeld = TRUE], 1)
                 ELSE [script EXCEPT !.pc = "attach", !.observedFree = TRUE]
    /\ UNCHANGED plugin_state

\* lines 74-80: dlv attach in the foreground; it listens on the port when
\* the port is free and fails to bind otherwise
Attach ==
    /\ Ready("attach")
    /\ script' = IF script.port = "free"
                 THEN [script EXCEPT !.pc = "dlv", !.attached = TRUE, !.port = "dlv"]
                 ELSE [script EXCEPT !.pc = "end", !.attached = TRUE]
    /\ UNCHANGED plugin_state

\* dlv ends: the client detaches, or dlv handles the INT of Ctrl+C
DlvExits ==
    /\ script.pc = "dlv"
    /\ script' = [script EXCEPT !.pc = "end", !.port = "free"]
    /\ UNCHANGED plugin_state

\* the script has run its last command: the shell exits with dlv's status
EndOfScript ==
    /\ Ready("end")
    /\ script' = shellExit(script, 0)
    /\ UNCHANGED plugin_state

\* INT (Ctrl+C) or TERM reaches the shell before cleanup has begun; it is
\* held while a command runs in the foreground
Signal ==
    /\ script.pc \in {"check", "kill", "recheck", "attach", "dlv", "end"}
    /\ script.pending = "none"
    /\ \E sig \in {"INT", "TERM"} : script' = [script EXCEPT !.pending = sig]
    /\ UNCHANGED plugin_state

\* the foreground command has completed: the shell runs the trap of the
\* signal it holds, or dies of the signal when there is no trap for it
RunTrap ==
    /\ script.pc \in {"check", "kill", "recheck", "attach", "end"}
    /\ script.pending # "none"
    /\ script' = IF script.pending \in script.trap
                 THEN [script EXCEPT !.pc = "cleanup", !.running = script.pending,
                                     !.pending = "none"]
                 ELSE [script EXCEPT !.pc = "exited", !.status = "signal",
                                     !.pending = "none"]
    /\ UNCHANGED plugin_state

\* cleanup lines 55-58 and 64: lsof; nothing to kill when nobody holds the port
CleanupLsof ==
    /\ script.pc = "cleanup"
    /\ script' = [script EXCEPT !.pc = IF script.port # "free" THEN "cleanupKill"
                                                               ELSE "cleanupExit",
                                !.delve_pid = IF script.port # "free" THEN script.port ELSE "",
                                !.cleanups = @ + 1, !.sent = <<>>]
    /\ UNCHANGED plugin_state

\* cleanup lines 59-63: kill -TERM, sleep 1, kill -9; the delve of this run
\* is gone, another process is gone or has come up again
CleanupKill ==
    /\ script.pc = "cleanupKill"
    /\ \E holder \in (IF script.port = "dlv" THEN {"free"} ELSE {"free", "stale"}) :
          script' = [script EXCEPT !.pc = "cleanupExit", !.sent = cleanupKills,
                                   !.port = holder]
    /\ UNCHANGED plugin_state

\* cleanup line 65: exit 0
CleanupExit ==
    /\ script.pc = "cleanupExit"
    /\ script' = shellExit(script, 0)
    /\ UNCHANGED plugin_state

\* another process starts to listen on the free port
PortTaken ==
    /\ script.pc \in {"attach", "end", "cleanup"}
    /\ script.port = "free"
    /\ script' = [script EXCEPT !.port = "stale"]
    /\ UNCHANGED plugin_state

NextDebug ==
    \/ RunDebug
    \/ FindPid
    \/ InstallTrap
    \/ CheckPort
    \/ KillExisting
    \/ Recheck
    \/ Attach
    \/ DlvExits
    \/ EndOfScript
    \/ Signal
    \/ RunTrap
    \/ CleanupLsof
    \/ CleanupKill
    \/ CleanupExit
    \/ PortTaken

SpecDebug == Init /\ [][NextDebug]_vars
(***************************************************************************)
(* Properties.  The arguments and the outcome of the invocation that has   *)
(* just run are read back from args and result; quantities named "true"    *)
(* are computed on the unbounded integers of the specification's text.     *)
(***************************************************************************)
RanProducts == op = "getProductsPaginated"
RanUsers == op = "getUsers"
RanCreateUser == op = "createUser"

\* the arguments of the last getProductsPaginated call, after defaulting
reqPage == GetIntArg(args, "page", 1)
reqPageSize == GetIntArg(args, "pageSize", 5)
reqCategory == GetStringArg(args, "category", "")
\* the filtered collection of that call and its size N
reqProducts == filteredProducts(allProducts, reqCategory)
reqN == Len(reqProducts)

\* ceil(n / d) for n >= 0, d > 0
Ceil(n, d) == (n + d - 1) \div d
Min(a, b) == IF a < b THEN a ELSE b

\* C1: getProductsPaginated with pageSize > 0 and page >= 1 returns an
\* envelope with totalPages = ceil(N / pageSize), hasNextPage exactly when
\* page < totalPages, and hasPreviousPage exactly when page > 1.
C1_PageMetadata ==
    (RanProducts /\ reqPageSize > 0 /\ reqPage >= 1) =>
        /\ result.status = "ok"
        /\ result.value.totalPages = Ceil(reqN, reqPageSize)
        /\ result.value.hasNextPage = (reqPage < Ceil(reqN, reqPageSize))
        /\ result.value.hasPreviousPage = (reqPage > 1)

\* no expression of the pagination arithmetic leaves the machine word
pageArithmeticFits ==
    /\ reqN + reqPageSize - 1 <= IntMax
    /\ (reqPage - 1) * reqPageSize + reqPageSize <= IntMax

\* C1 restricted to the calls whose arithmetic does not overflow: holds
C1_WithoutOverflow == (RanProducts /\ pageArithmeticFits) => C1_PageMetadata

\* the page of the specification: collection[offset : min(offset + pageSize, N)]
\* with offset = (page - 1) * pageSize, empty when offset >= N
truePage(collection, page, pageSize) ==
    LET offset == (page - 1) * pageSize
    IN  IF offset >= Len(collection)
        THEN <<>>
        ELSE SubSeq(collection, offset + 1, Min(offset + pageSize, Len(collection)))

\* C2: getProductsPaginated with page >= 1 and pageSize > 0 returns as items
\* the projection of collection[offset : min(offset + pageSize, N)], in
\* order, and no items when offset >= N, for offset = (page - 1) * pageSize.
C2_PageItems ==
    (RanProducts /\ reqPage >= 1 /\ reqPageSize > 0) =>
        /\ result.status = "ok"
        /\ result.value.items = itemStrings(truePage(reqProducts, reqPage, reqPageSize))

\* C2 restricted to the calls whose arithmetic does not overflow: holds
C2_WithoutOverflow == (RanProducts /\ pageArithmeticFits) => C2_PageItems

\* C3: a pageSize <= 0 is treated as pageSize = 1: the call returns what the
\* call with pageSize = 1 returns and does not fail with a division error.
C3_PageSizeClamped ==
    (RanProducts /\ reqPageSize <= 0) =>
        /\ result.status = "ok"
        /\ result = getProductsPaginatedResolver([args EXCEPT !.pageSize = IntV(1)])

\* the arguments of the last getUsers call, after defaulting
reqLimit == GetIntArg(args, "limit", 10)
reqOffset == GetIntArg(args, "offset", 0)
reqActive == GetBoolArg(args, "active", TRUE)
\* size N of the filtered collection of that call
reqUsersN == Cardinality({i \in 1..3 : users(0, 0, 0)[i].active = reqActive})

\* offset clamped into [0, n]
Clamp(offset, n) == IF offset < 0 THEN 0 ELSE IF offset > n THEN n ELSE offset

\* C4: getUsers clamps offset into [0, N], takes end = min(offset + limit, N)
\* and returns exactly filtered[offset:end], for every integer offset and
\* limit, negative offset included.
C4_OffsetClamped ==
    RanUsers =>
        /\ result.status = "ok"
        /\ \E t1, t2, t3 \in 0..MaxClock :
              result.value =
                  SubSeq(filteredUsers(users(t1, t2, t3), reqActive),
                         Clamp(reqOffset, reqUsersN) + 1,
                         Min(Clamp(reqOffset, reqUsersN) + reqLimit, reqUsersN))

\* C5: the slice bounds getUsers uses satisfy 0 <= start <= end <= N and it
\* returns at most limit users, for every offset and limit.
C5_SliceBounds ==
    RanUsers =>
        /\ 0 <= usersStart(reqOffset, reqUsersN)
        /\ usersStart(reqOffset, reqUsersN) <= usersEnd(reqOffset, reqLimit, reqUsersN)
        /\ usersEnd(reqOffset, reqLimit, reqUsersN) <= reqUsersN
        /\ result.status = "ok"
        /\ Len(result.value) <= reqLimit

\* C6: for every combination of integer pagination arguments, zero and
\* negative values included, getUsers and getProductsPaginated return a
\* result and never panic.
C6_NeverPanics ==
    (RanUsers \/ RanProducts) => result.status = "ok"
\* the required fields of the createUser input, in declaration order
RequiredFields == <<"name", "email", "username">>

\* the last createUser call carried no input object
noInput == args.input.t # "object"

\* field k of the input object is empty or absent (it holds no non-empty string)
fieldMissing(k) == noInput \/ ~(args.input.v[k].t = "string" /\ args.input.v[k].v # "")

\* C7: every envelope createUser returns has data = null and a non-null,
\* non-empty errors list when success is false, and errors = null and a
\* non-null data when success is true.
C7_EnvelopeShape ==
    RanCreateUser =>
        /\ result.status = "ok"
        /\ (result.value.success = FALSE) =>
              /\ result.value.data.isNil
              /\ ~result.value.errors.isNil
              /\ Len(result.value.errors.v) > 0
        /\ (result.value.success = TRUE) =>
              /\ result.value.errors.isNil
              /\ ~result.value.data.isNil

\* a rejected createUser call that follows an accepted one
C7_Witness ==
    /\ RanCreateUser
    /\ result.value.success = FALSE
    /\ createdIds # <<>>

\* C8: createUser returns success = false exactly when at least one of
\* name, email, username is empty or absent and success = true exactly when
\* all three are non-empty; nothing else decides the branch.
C8_RejectedIffFieldMissing ==
    RanCreateUser =>
        /\ result.status = "ok"
        /\ (result.value.success = FALSE) <=>
              (\E i \in 1..3 : fieldMissing(RequiredFields[i]))

\* createUser with name = "", email = "a@b.com", username = "bob" is rejected
C8_Witness ==
    /\ RanCreateUser
    /\ ~noInput
    /\ args.input.v.name = StrV("")
    /\ args.input.v.email = StrV("a@b.com")
    /\ args.input.v.username = StrV("bob")
    /\ args.input.v.role = StrV("admin")
    /\ result.value.success = FALSE

\* strings.Join(fields, ",") for a subsequence of RequiredFields
CommaJoined(fields) ==
    CASE fields = <<"name">> -> "name"
      [] fields = <<"email">> -> "email"
      [] fields = <<"username">> -> "username"
      [] fields = <<"name", "email">> -> "name,email"
      [] fields = <<"name", "username">> -> "name,username"
      [] fields = <<"email", "username">> -> "email,username"
      [] fields = <<"name", "email", "username">> -> "name,email,username"
      [] OTHER -> ""

\* the required fields that are missing from the last createUser call, in order
missingFields == SelectSeq(RequiredFields, LAMBDA k : fieldMissing(k))

\* C9: when createUser rejects the input, errors[0] has code
\* "VALIDATION_ERROR" and its field is the comma-joined list of the names
\* of exactly the required fields that are missing.
C9_FieldListsMissing ==
    (RanCreateUser /\ result.value.success = FALSE) =>
        /\ result.value.errors.v[1].code = "VALIDATION_ERROR"
        /\ result.value.errors.v[1].field = CommaJoined(missingFields)

\* C9 as amended: when createUser rejects the input, errors holds exactly one
\* error, its code is "VALIDATION_ERROR" and its field is the comma-joined
\* list of all three required fields, "name,email,username", whichever of
\* them are missing.
C9_FieldListsAllRequired ==
    (RanCreateUser /\ result.value.success = FALSE) =>
        /\ Len(result.value.errors.v) = 1
        /\ result.value.errors.v[1].code = "VALIDATION_ERROR"
        /\ result.value.errors.v[1].field = CommaJoined(RequiredFields)

\* a call rejected because only the name is missing still reports all three fields
C9_Witness ==
    /\ RanCreateUser
    /\ missingFields = <<"name">>
    /\ result.value.success = FALSE
    /\ result.value.errors.v[1].field = "name,email,username"

\* C10: the identifiers of any two successful createUser calls of one run
\* differ (and none is empty).
C10_UniqueIds ==
    \A i, j \in 1..Len(createdIds) :
        /\ createdIds[i] # <<>>
        /\ (i # j) => createdIds[i] # createdIds[j]
\* C11: a validation failure of createUser is returned as a value with a
\* nil error, and every resolver and REST handler returns a nil error for
\* every argument mapping.
C11_NilError ==
    (op # "none") => result.err = "nil"

\* the operations that compute no slice and no quotient
NoPagination == op \notin {"none", "getUsers", "getProductsPaginated"}

\* C11 on createUser and on the operations without pagination: holds
C11_NilErrorWithoutPagination ==
    NoPagination => (result.status = "ok" /\ result.err = "nil")
\* sub is a subsequence of seq: its records are records of seq, each taken
\* once, in the order of seq
IsSubsequence(sub, seq) ==
    \E f \in [1..Len(sub) -> 1..Len(seq)] :
        /\ \A i \in 1..Len(sub) : sub[i] = seq[f[i]]
        /\ \A i, j \in 1..Len(sub) : (i < j) => (f[i] < f[j])

NoRecordTwice(seq) == \A i, j \in 1..Len(seq) : (i # j) => (seq[i] # seq[j])

\* the seed and the filtered collection of the last getUsers call, had
\* every reading of the clock been t
reqUsersSeed(t) == users(t, t, t)
reqUsers(t) == filteredUsers(reqUsersSeed(t), reqActive)

\* C12: the filtered users and the filtered products are subsequences of
\* their seed collection in the original relative order, hold no record
\* twice and are no longer than the seed; so is every list of users returned.
C12_FilterStable ==
    /\ RanUsers =>
          /\ \A t \in 0..MaxClock :
                /\ IsSubsequence(reqUsers(t), reqUsersSeed(t))
                /\ NoRecordTwice(reqUsers(t))
                /\ Len(reqUsers(t)) <= Len(reqUsersSeed(t))
          /\ (result.status = "ok") =>
                \E t1, t2, t3 \in 0..MaxClock :
                    IsSubsequence(result.value, users(t1, t2, t3))
    /\ RanProducts =>
          /\ IsSubsequence(reqProducts, allProducts)
          /\ NoRecordTwice(reqProducts)
          /\ Len(reqProducts) <= Len(allProducts)

\* getUsers kept the first and the third user, in that order, and dropped the second
C12_Witness ==
    /\ RanUsers
    /\ reqActive = TRUE
    /\ result.status = "ok"
    /\ Len(result.value) = 2
    /\ result.value[1].id = "1"
    /\ result.value[2].id = "3"
\* the active value the last getUsers call asked for: the argument when it
\* is a boolean, true otherwise
wantedActive == IF args.active.t = "bool" THEN args.active.v ELSE TRUE

\* the ids of the returned users, in order
returnedIds == [i \in 1..Len(result.value) |-> result.value[i].id]

\* C13: getUsers keeps a user exactly when user.active equals the requested
\* value, and asks for active = true when the argument is absent: every
\* returned user has the requested value, and with offset 0 and limit 10
\* the 3-user seed yields users 1 and 3 (active) resp. user 2 (inactive),
\* in seed order.
C13_ActiveFilter ==
    (RanUsers /\ result.status = "ok") =>
        /\ \A i \in 1..Len(result.value) : result.value[i].active = wantedActive
        /\ (reqOffset = 0 /\ reqLimit = 10) =>
              returnedIds = IF wantedActive THEN <<"1", "3">> ELSE <<"2">>

\* scenario 1: no active argument, offset 0, limit 10: the two active users
C13_Witness ==
    /\ RanUsers
    /\ args.active = AbsentV
    /\ args.offset = IntV(0)
    /\ args.limit = IntV(10)
    /\ result.status = "ok"
    /\ returnedIds = <<"1", "3">>
\* the category the last getProductsPaginated call asked for: the argument
\* when it is a string, the empty string otherwise
wantedCategory == IF args.category.t = "string" THEN args.category.v ELSE ""

\* product i of the seed passes the membership filter
passesCategory(i) ==
    \/ wantedCategory = ""
    \/ wantedCategory \in {allProducts[i].categories[k] : k \in 1..Len(allProducts[i].categories)}

\* the seed indexes of the products that pass
passing == {i \in 1..Len(allProducts) : passesCategory(i)}

\* C14: getProductsPaginated keeps a product exactly when the requested
\* category is one of its categories, and keeps every product, in seed
\* order, when the category is empty or absent; "electronics" selects
\* exactly product 1.  (Seen on the first page of 5, which holds them all.)
C14_CategoryFilter ==
    (RanProducts /\ result.status = "ok") =>
        /\ result.value.totalCount = Cardinality(passing)
        /\ (reqPage = 1 /\ reqPageSize = 5) =>
              /\ \A i \in 1..Len(allProducts) :
                    passesCategory(i) <=>
                        (\E k \in 1..Len(result.value.items) :
                            result.value.items[k] = itemString(allProducts[i]))
              /\ (wantedCategory = "") => result.value.items = itemStrings(allProducts)
              /\ (wantedCategory = "electronics") =>
                    result.value.items = <<itemString(allProducts[1])>>

\* scenario 2: category "electronics" on the first page of 5 yields the laptop only
C14_Witness ==
    /\ RanProducts
    /\ args.category = StrV("electronics")
    /\ args.page = AbsentV
    /\ args.pageSize = AbsentV
    /\ result.status = "ok"
    /\ Len(result.value.items) = 1
    /\ result.value.items[1][1] = "Laptop"
\* C17: getProductsPaginated (page >= 1, pageSize > 0) always reports
\* totalCount = N, the requested page as currentPage and the requested
\* pageSize as pageSize, also when the page lies beyond the last page (no
\* items) and when no product matches (N = 0, totalPages = 0).
C17_CountsEchoed ==
    (RanProducts /\ reqPage >= 1 /\ reqPageSize > 0) =>
        /\ result.status = "ok"
        /\ result.value.totalCount = Cardinality(passing)
        /\ result.value.currentPage = reqPage
        /\ result.value.pageSize = reqPageSize
        /\ ((reqPage - 1) * reqPageSize >= Cardinality(passing)) => result.value.items = <<>>
        /\ (passing = {}) => result.value.totalPages = 0

\* C17 on the envelopes that are returned: holds
C17_WhenReturned ==
    (RanProducts /\ result.status = "ok") =>
        /\ result.value.totalCount = Cardinality(passing)
        /\ result.value.currentPage = reqPage
        /\ result.value.pageSize = reqPageSize
        /\ (passing = {} /\ reqPageSize > 0) => result.value.totalPages = 0

\* argument a of the last call is absent, null or of another type than ty
notOfType(a, ty) == args[a].t # ty

\* C18: an argument that is absent, null or of the wrong type is replaced by
\* the default and the call does not fail for it: getUsers uses limit 10,
\* offset 0, active true; getProductsPaginated page 1, pageSize 5, category
\* ""; getUserProfile userId "default-user"; createUser takes absent name,
\* email, username as empty strings.
C18_Defaults ==
    /\ RanUsers =>
          /\ \E t1, t2, t3 \in 0..MaxClock :
                result = getUsersResolver(
                    [limit |-> IF notOfType("limit", "int") THEN IntV(10) ELSE args.limit,
                     offset |-> IF notOfType("offset", "int") THEN IntV(0) ELSE args.offset,
                     active |-> IF notOfType("active", "bool") THEN BoolV(TRUE) ELSE args.active],
                    t1, t2, t3)
          /\ (notOfType("limit", "int") /\ notOfType("offset", "int")) =>
                /\ result.status = "ok"
                /\ returnedIds = IF wantedActive THEN <<"1", "3">> ELSE <<"2">>
    /\ RanProducts =>
          /\ result = getProductsPaginatedResolver(
                    [page |-> IF notOfType("page", "int") THEN IntV(1) ELSE args.page,
                     pageSize |-> IF notOfType("pageSize", "int") THEN IntV(5) ELSE args.pageSize,
                     category |-> IF notOfType("category", "string") THEN StrV("") ELSE args.category])
          /\ (notOfType("page", "int") /\ notOfType("pageSize", "int")) =>
                /\ result.status = "ok"
                /\ result.value.currentPage = 1
                /\ result.value.pageSize = 5
          /\ (notOfType("category", "string") /\ result.status = "ok") =>
                result.value.totalCount = Len(allProducts)
    /\ (op = "getUserProfile") =>
          /\ result.status = "ok"
          /\ notOfType("userId", "string") => result.value.id = "default-user"
    /\ RanCreateUser =>
          /\ result.status = "ok"
          /\ (\E i \in 1..3 : fieldMissing(RequiredFields[i])) =>
                result.value = validationFailure

\* getUsers called with a null limit, a string as offset and no active argument
C18_Witness ==
    /\ RanUsers
    /\ args.limit = NullV
    /\ args.offset = StrV("x")
    /\ args.active = AbsentV
    /\ result.status = "ok"
    /\ returnedIds = <<"1", "3">>

\* C20: in a returned paginated envelope, items holds one string per record
\* of the sliced page, in the order of the page, and the message reports
\* that number: "Retrieved k products" with k = number of items.
C20_ItemsProjectPage ==
    (RanProducts /\ result.status = "ok") =>
        LET page == pageItemsOf(reqProducts, reqPage, reqPageSize).value
        IN  /\ Len(result.value.items) = Len(page)
            /\ \A i \in 1..Len(page) : result.value.items[i] = itemString(page[i])
            /\ IsSubsequence(page, reqProducts)
            /\ result.value.message = <<"Retrieved ", Len(result.value.items), " products">>

\* scenario 4: the second page of 2 out of 3 products holds the book only
C20_Witness ==
    /\ RanProducts
    /\ reqPage = 2
    /\ reqPageSize = 2
    /\ result.status = "ok"
    /\ result.value.totalCount = 3
    /\ result.value.items = <<itemString(allProducts[3])>>
    /\ result.value.message = <<"Retrieved ", 1, " products">>
\* name is bound to resolver in the given table of the plugin
Bound(table, name, resolver) ==
    \E k \in 1..Len(plugin[table]) :
        plugin[table][k] = [name |-> name, resolver |-> resolver]

\* the names registered in the given table
NamesIn(table) == {plugin[table][k].name : k \in 1..Len(plugin[table])}

\* C19: when startNormalPlugin has registered everything and before it
\* serves, the registered queries are helloWorldQuery, getUserProfile,
\* getUsers, getProduct and getProductsPaginated and createUser is a
\* registered mutation, each bound to its matching resolver.
C19_Registered ==
    (pc = "serve") =>
        /\ NamesIn("queries") = {"helloWorldQuery", "getUserProfile", "getUsers",
                                 "getProduct", "getProductsPaginated"}
        /\ Bound("queries", "helloWorldQuery", "helloWorldResolver")
        /\ Bound("queries", "getUserProfile", "getUserProfileResolver")
        /\ Bound("queries", "getUsers", "getUsersResolver")
        /\ Bound("queries", "getProduct", "getProductResolver")
        /\ Bound("queries", "getProductsPaginated", "getProductsPaginatedResolver")
        /\ Bound("mutations", "createUser", "createUserResolver")

\* C19 without the hello-world query: holds
C19_RegisteredOthers ==
    (pc \in {"serve", "serving"}) =>
        /\ NamesIn("queries") \ {"helloWorldQueryFahim"} =
              {"getUserProfile", "getUsers", "getProduct", "getProductsPaginated"}
        /\ Bound("queries", "getUserProfile", "getUserProfileResolver")
        /\ Bound("queries", "getUsers", "getUsersResolver")
        /\ Bound("queries", "getProduct", "getProductResolver")
        /\ Bound("queries", "getProductsPaginated", "getProductsPaginatedResolver")
        /\ Bound("mutations", "createUser", "createUserResolver")

(***************************************************************************)
(* Properties of the invocations in parallel                               *)
(***************************************************************************)
Returned(i) == calls[i].pc = "returned"

\* the operations that never read the clock
ClockFree == {"getProductsPaginated"}

C16_NoInterference ==
    \A i \in Slots :
        LET c == calls[i]
        IN  /\ (c.op = "getUsers" /\ c.pc \in {"seeded", "filtered"})
                => heap[c.seed] = users(c.reads[1], c.reads[2], c.reads[3])
            /\ (c.op = "getUsers" /\ c.pc = "filtered")
                => heap[c.filtered] =
                       filteredUsers(users(c.reads[1], c.reads[2], c.reads[3]),
                                     GetBoolArg(c.args, "active", usersDefaults.active))
            /\ (c.op = "getProductsPaginated" /\ c.pc \in {"seeded", "filtered"})
                => heap[c.seed] = allProducts
            /\ (c.op = "getProductsPaginated" /\ c.pc = "filtered")
                => heap[c.filtered] =
                       filteredProducts(allProducts,
                           GetStringArg(c.args, "category", productsDefaults.category))
            /\ c.pc = "returned" => c.out = sequentialOutcome(c)

\* a getUsers invocation has returned a non-empty page built from users it
\* seeded before the other goroutine seeded its own at a later second
C16_Witness ==
    /\ Returned("g1")
    /\ calls["g1"].op = "getUsers"
    /\ calls["g1"].out.status = "ok"
    /\ calls["g1"].out.value # <<>>
    /\ calls["g2"].op = "getUsers"
    /\ calls["g2"].pc \in {"seeded", "filtered"}
    /\ calls["g1"].reads[3] < calls["g2"].reads[1]

(***************************************************************************)
(* createUser on success, the pages of getProductsPaginated as a whole,    *)
(* the parse names, the order of startup, helloWorld and custom-hello      *)
(***************************************************************************)
\* C21: when createUser succeeds the data record carries the name, email
\* and username of the request unchanged, has active = true, has an id and
\* a createdAt field, and the message is "User created successfully".
C21_SuccessRecord ==
    (RanCreateUser /\ result.status = "ok" /\ result.value.success) =>
        LET user == result.value.data.v
        IN  /\ user.name = args.input.v.name.v
            /\ user.email = args.input.v.email.v
            /\ user.username = args.input.v.username.v
            /\ user.active = TRUE
            /\ {"id", "createdAt"} \subseteq DOMAIN user
            /\ result.value.message = "User created successfully"

\* createUser with name = "Bo", email = "a@b.com", username = "bob" has succeeded
C21_Witness ==
    /\ RanCreateUser
    /\ result.value.success
    /\ args.input.v.name = StrV("Bo")
    /\ result.value.data.v.name = "Bo"
    /\ result.value.data.v.email = "a@b.com"
    /\ result.value.data.v.username = "bob"

\* what the last getProductsPaginated call returns when asked for page p instead
pageOf(p) == getProductsPaginatedResolver([args EXCEPT !.page = IntV(p)])

\* the items of page p, or a marker when that call returns no envelope
itemsOfPage(p) == IF pageOf(p).status = "ok" THEN pageOf(p).value.items ELSE << <<"panic">> >>

\* the items of pages 1, 2, ..., k one after the other
RECURSIVE ConcatPages(_)
ConcatPages(k) == IF k <= 0 THEN <<>> ELSE ConcatPages(k - 1) \o itemsOfPage(k)

\* C22: for every pageSize > 0 and category the items of pages 1, 2, ...,
\* totalPages, one after the other, are the projection of the whole filtered
\* collection in order; every page in 1..totalPages is non-empty and every
\* page beyond totalPages is empty.
C22_PagesPartition ==
    (RanProducts /\ reqPageSize > 0) =>
        LET totalPages == totalPagesOf(reqN, reqPageSize)
        IN  /\ \A p \in 1..totalPages : pageOf(p).status = "ok" /\ itemsOfPage(p) # <<>>
            /\ ConcatPages(totalPages) = itemStrings(reqProducts)
            /\ (reqPage > totalPages) => (result.status = "ok" /\ result.value.items = <<>>)

\* C22 restricted to the calls whose arithmetic does not overflow: holds
C22_WithoutOverflow == (RanProducts /\ pageArithmeticFits) => C22_PagesPartition

\* page p can be requested and the request returns a non-empty items list
nonEmptyPage(p) == p \in GoInt /\ pageOf(p).status = "ok" /\ pageOf(p).value.items # <<>>

\* C23: for every page >= 1 and pageSize > 0, hasNextPage is true exactly
\* when the request for page + 1 returns a non-empty items list, and
\* hasPreviousPage is true only if the request for page - 1 returns a
\* non-empty items list.
C23_FlagsAgree ==
    (RanProducts /\ reqPage >= 1 /\ reqPageSize > 0) =>
        /\ result.status = "ok"
        /\ result.value.hasNextPage = nonEmptyPage(reqPage + 1)
        /\ result.value.hasPreviousPage => nonEmptyPage(reqPage - 1)

\* C23 for the pages up to the one after the last, on the calls whose
\* arithmetic does not overflow: holds
C23_UpToLastPlusOne ==
    (RanProducts /\ pageArithmeticFits /\ reqPage >= 1 /\ reqPageSize > 0
       /\ reqPage <= totalPagesOf(reqN, reqPageSize) + 1) => C23_FlagsAgree

\* hasNextPage agrees with page + 1 on the calls whose arithmetic does not
\* overflow, wherever the page lies: holds
C23_NextWithoutOverflow ==
    (RanProducts /\ pageArithmeticFits /\ reqPage >= 1 /\ reqPageSize > 0) =>
        /\ result.status = "ok"
        /\ result.value.hasNextPage = nonEmptyPage(reqPage + 1)

\* a page two beyond the last: hasPreviousPage is reported although the page
\* before it holds nothing, with no arithmetic overflow
C23_PreviousPageEmpty ==
    /\ RanProducts /\ pageArithmeticFits /\ reqPageSize > 0
    /\ reqPage >= totalPagesOf(reqN, reqPageSize) + 2
    /\ result.status = "ok"
    /\ result.value.hasPreviousPage
    /\ ~nonEmptyPage(reqPage - 1)

\* the last getUsers call returned filtered[min(offset, N) : min(offset + limit, N)]
usersClampedSlice ==
    /\ result.status = "ok"
    /\ \E t1, t2, t3 \in 0..MaxClock :
          result.value = SubSeq(filteredUsers(users(t1, t2, t3), reqActive),
                                Min(reqOffset, reqUsersN) + 1,
                                Min(reqOffset + reqLimit, reqUsersN))

\* C24: the pagination arithmetic does not wrap around: for all non-negative
\* offset and limit getUsers returns the clamped slice, and for all page >= 1
\* and pageSize > 0 getProductsPaginated returns the clamped page (empty
\* when the start lies beyond the collection), also when offset + limit or
\* (page - 1) * pageSize exceeds the maximum integer.
C24_NoWrapAround ==
    /\ (RanUsers /\ reqOffset >= 0 /\ reqLimit >= 0) => usersClampedSlice
    /\ (RanProducts /\ reqPage >= 1 /\ reqPageSize > 0) =>
           /\ result.status = "ok"
           /\ result.value.items = itemStrings(truePage(reqProducts, reqPage, reqPageSize))

\* getUsers with non-negative offset and limit whose sum fits the machine
\* word returns the clamped slice: holds
C24_UsersWithoutOverflow ==
    (RanUsers /\ reqOffset >= 0 /\ reqLimit >= 0 /\ reqOffset + reqLimit <= IntMax)
        => usersClampedSlice

\* the bindings startNormalPlugin has made so far, of every kind
bindings ==
    {plugin.queries[k] : k \in 1..Len(plugin.queries)}
    \cup {plugin.mutations[k] : k \in 1..Len(plugin.mutations)}
    \cup {plugin.functions[k] : k \in 1..Len(plugin.functions)}
    \cup {plugin.restAPIs[k] : k \in 1..Len(plugin.restAPIs)}

\* startNormalPlugin has executed every Register* statement
allRegistered == pc \in {"serve", "serving"}

\* C25: once everything is registered, every registered resolver that parses
\* its arguments parses them under the name it is registered with, and every
\* resolver function that parses arguments is registered; helloWorldResolver
\* parses under its registered query name.
C25_ParseNamesRegistered ==
    allRegistered =>
        /\ \A b \in bindings : \A q \in parseNames :
               q.resolver = b.resolver => q.name = b.name
        /\ \A q \in parseNames : \E b \in bindings : b.resolver = q.resolver

\* C25 for the resolvers that are registered, helloWorldResolver left out: holds
C25_ParseNamesOthers ==
    allRegistered =>
        \A b \in bindings : \A q \in parseNames :
            (q.resolver = b.resolver /\ q.resolver # "helloWorldResolver")
                => q.name = b.name

\* the table a Register* statement of that kind has filled so far
tableOf(kind) ==
    CASE kind = "query" -> plugin.queries
      [] kind = "mutation" -> plugin.mutations
      [] kind = "function" -> plugin.functions
      [] kind = "rest" -> plugin.restAPIs

\* how many times the k-th Register* statement's binding is in its table
timesRegistered(k) ==
    LET r == registrations[k]
        table == tableOf(r.kind)
    IN  Cardinality({j \in 1..Len(table) : table[j] = binding(r)})

\* C26: startNormalPlugin follows a fixed order: sdk.Init precedes every
\* registration, no binding is registered twice, Serve is called only when
\* every query, mutation, function and REST endpoint is registered exactly
\* once, and the banner is printed, before sdk.Init, exactly when
\* PLUGIN_DEBUG_MODE is "true", with no effect on what is registered.
C26_StartupOrder ==
    /\ registered > 0 => (plugin.name = NewPlugin.name /\ pc \notin {"start", "init"})
    /\ \A k \in 1..Len(registrations) : timesRegistered(k) <= 1
    /\ \A k \in 1..Len(registrations) : timesRegistered(k) = 1 <=> k <= registered
    /\ pc = "serving" =>
           /\ registered = Len(registrations)
           /\ \A k \in 1..Len(registrations) : timesRegistered(k) = 1
    /\ pc = "start" => (banner = FALSE /\ plugin = NoPlugin)
    /\ pc # "start" => banner = (debugMode = "true")

\* the plugin serves with everything registered and the banner printed
C26_Witness ==
    /\ pc = "serving"
    /\ debugMode = "true"
    /\ banner
    /\ registered = Len(registrations)
    /\ op = "getUsers"

RanCustomHello == op = "POST /custom-hello"

\* argument k of the last REST call is a non-empty string
givenString(k) == args[k].t = "string" /\ args[k].v # ""

\* C28: customHelloRESTHandler never raises; name is "World" unless the name
\* argument is a non-empty string, message is "Hello" unless the message
\* argument is a non-empty string, each whatever the other is, and the
\* greeting is "<message>, <name>! (SDK Version)".
C28_CustomHelloDefaults ==
    RanCustomHello =>
        /\ result.status = "ok"
        /\ result.err = "nil"
        /\ result.value.greeting =
              << IF givenString("message") THEN args.message.v ELSE "Hello",
                 ", ",
                 IF givenString("name") THEN args.name.v ELSE "World",
                 "! (SDK Version)" >>

\* POST /custom-hello with an empty name and the message "Hi" has answered
\* "Hi, World! (SDK Version)"
C28_Witness ==
    /\ RanCustomHello
    /\ args.name = StrV("")
    /\ args.message = StrV("Hi")
    /\ result.value.greeting = <<"Hi", ", ", "World", "! (SDK Version)">>

RanHelloWorld == op = "helloWorldQueryFahim"

\* the lines of the last response that begin with the given piece
linesStarting(piece) == SelectSeq(result.value, LAMBDA line : line[1] = piece)

\* the context values of the last hello-world call, under the labels of their lines
contextValues ==
    { <<"Plugin ID: ", args.pluginId>>, <<"Project ID: ", args.projectId>>,
      <<"User ID: ", args.userId>>, <<"Tenant ID: ", args.tenantId>> }

\* the entries of a list that are objects, each with its position in the list
objectEntries(arr) == {i \in 1..Len(arr) : arr[i].t = "object"}

\* C27: the response of helloWorldResolver holds exactly one greeting line
\* "Hello, <name>!", with the name argument or "World" when it is absent; a
\* context line appears exactly when its value is non-empty; the object line
\* appears exactly when the object argument is non-empty; the array section
\* appears exactly when arrayofObjects is non-empty, with one numbered line
\* per object entry, in order.
C27_HelloWorldLines ==
    RanHelloWorld =>
        LET arr == GetArrayArg(args, "arrayofObjects")
            numbered == linesStarting("  Object ")
        IN  /\ result.status = "ok"
            /\ Len(linesStarting("Hello, ")) = 1
            /\ args.name.t = "string" =>
                   linesStarting("Hello, ") = << <<"Hello, ", args.name.v, "!">> >>
            /\ args.name.t = "absent" =>
                   linesStarting("Hello, ") = << <<"Hello, ", "World", "!">> >>
            /\ \A c \in contextValues :
                   linesStarting(c[1]) = (IF c[2] # "" THEN <<c>> ELSE <<>>)
            /\ Len(linesStarting("Object received: ")) =
                   (IF args.object.t = "object" /\ MapLen(args.object.v) > 0 THEN 1 ELSE 0)
            /\ Len(linesStarting("Array of Objects received:")) =
                   (IF Len(arr) > 0 THEN 1 ELSE 0)
            /\ Len(numbered) = Cardinality(objectEntries(arr))
            /\ \A k \in 1..Len(numbered) :
                   /\ numbered[k][2] \in objectEntries(arr)
                   /\ numbered[k] = arrayLine(numbered[k][2], arr[numbered[k][2]].v)
                   /\ k > 1 => numbered[k - 1][2] < numbered[k][2]

\* a hello-world call with a name, a user id only, an object and a list of
\* two objects has answered
C27_Witness ==
    /\ RanHelloWorld
    /\ args.name = StrV("Ann")
    /\ args.pluginId = "" /\ args.userId = "user-1"
    /\ args.object.t = "object" /\ MapLen(args.object.v) > 0
    /\ Len(GetArrayArg(args, "arrayofObjects")) = 2
    /\ Len(linesStarting("  Object ")) = 2
    /\ Len(result.value) = 7

(***************************************************************************)
(* Properties of runDebug.sh                                               *)
(***************************************************************************)
ScriptEnded == script.pc = "exited"
TrapInstalled == script.trap # {}

noPluginFound == ~script.pidGiven /\ ~script.pluginRunning /\ script.pc # "none"

\* C30: dlv attach runs only after the port was observed free; when a
\* process still holds the port after the kill attempt, or when no PID is
\* given and no plugin process is found, the script never runs dlv attach
\* and terminates with exit status 1.
C30_AttachOnlyWhenFree ==
    /\ script.attached => script.observedFree
    /\ (script.portHeld \/ noPluginFound) => ~script.attached
    /\ (ScriptEnded /\ (script.portHeld \/ noPluginFound)) => script.status = 1

\* C30 without the exit status of the run that found the port still held: holds
C30_NeverAttaches ==
    /\ script.attached => script.observedFree
    /\ (script.portHeld \/ noPluginFound) => ~script.attached
    /\ (ScriptEnded /\ noPluginFound) => script.status = 1

\* the run that found the port still held has ended with exit status 0
C30_PortHeldExitsZero ==
    ScriptEnded /\ script.portHeld /\ script.status = 0

====
